---- MODULE Spec2Model ----
(***************************************************************************)
(* Barcode localisation-and-decoding cascade of HonestBite.                *)
(*                                                                         *)
(*   - the checksum validator of the frontend scanner                      *)
(*     (isValidEAN13, isValidUPCA, isValidEAN8, findValidBarcodeInString,  *)
(*     normalizeAndValidateBarcode);                                       *)
(*   - the backend /api/barcode/extract handler with the Hugging Face      *)
(*     detector and the ZXing decoder;                                     *)
(*   - the frontend orchestrators scanBarcodeFromImage and                 *)
(*     scanBarcodeFromCanvas.                                              *)
(*                                                                         *)
(* A JavaScript string is a sequence of one-character strings; the value   *)
(* null is the token Null, which is no sequence of characters.             *)
(***************************************************************************)
EXTENDS Integers, Sequences, FiniteSets, TLC

VARIABLES
    input,      \* checksum validator: the string handed to the validator
    seedAt,     \* checksum validator: number of characters put before the seed
    seedLen,    \* checksum validator: length of the seed the input grew from
    call,       \* checksum validator: the last call, [fn, arg, out]
    exPc,         \* /extract: position of the request in extractHandler
    exUpload,     \* /extract: what multer made of the upload
    exHfFailed,   \* /extract: hfFailed
    exDetections, \* /extract: detections, as detectBarcodesHF returned them
    exIdx,        \* /extract: index (from 1) of the detection being decoded
    exScale,      \* /extract: index (from 1) into scales = [1, 1.5, 2]
    exBase,       \* /extract: outcome of the full-image PNG conversion
    exBarcodes,   \* /extract: barcodes
    exAttempts,   \* /extract: the decodeBarcodeWithZXing calls made, in order
    exResp,       \* /extract: the HTTP response
    exCropFailed, \* /extract: the detections whose crop threw (logged, skipped)
    exDecodedFrom,\* /extract: for each entry of barcodes, the detection whose
                  \*           crop gave the text (0: the full image)
    scPc,           \* scanner: position in scanBarcodeFromImage / FromCanvas
    scFn,           \* scanner: "image" or "canvas", the function called
    scHasBD,        \* scanner: 'BarcodeDetector' in window
    scDetectFailed, \* scanner: the detector threw inside detectRoiCanvases
    scRois,         \* scanner: number of ROI canvases
    scIdx,          \* scanner: index (from 1) in the loop being run
    scAttempts,     \* scanner: attempts, the labels in order
    scLastError,    \* scanner: lastError is set
    scCalls,        \* scanner: the engine calls made, in order
    scResult,       \* scanner: how the promise settled
    cvW,            \* canvas helpers: width of the canvas at hand
    cvH,            \* canvas helpers: height of the canvas at hand
    cvTrail,        \* canvas helpers: the helper calls that made it, each with
                    \*                 the width and height it was given
    zxCall,         \* decoder: the last decodeBarcodeWithZXing call, [fn, view, out]
    vdPc,           \* video scan: "idle" or "scanning" (scanBarcodeFromVideo called)
    vdPromise,      \* video scan: the promise it returned, [kind, value]
    vdTimer,        \* video scan: "none", "armed", "cleared" or "fired"
    vdResets,       \* video scan: the reader.reset() calls made
    vdTrail         \* video scan: the decoder callbacks and the timer expiry,
                    \*             in the order they ran

chkVars == <<input, seedAt, seedLen, call>>

exVars == <<exPc, exUpload, exHfFailed, exDetections, exIdx, exScale, exBase,
            exBarcodes, exAttempts, exResp, exCropFailed, exDecodedFrom>>

scVars == <<scPc, scFn, scHasBD, scDetectFailed, scRois, scIdx, scAttempts,
            scLastError, scCalls, scResult>>

cvVars == <<cvW, cvH, cvTrail>>

zxVars == <<zxCall>>

vdVars == <<vdPc, vdPromise, vdTimer, vdResets, vdTrail>>

vars == <<chkVars, exVars, scVars, cvVars, zxVars, vdVars>>

(***************************************************************************)
(* Strings                                                                 *)
(***************************************************************************)
Null == <<"null">>

DigitChars == {"0", "1", "2", "3", "4", "5", "6", "7", "8", "9"}

\* characters that are no digits: a separator and a letter
OtherChars == {"-"}

Alphabet == DigitChars \cup OtherChars

\* Number(c) for a one-character string c, as in code.split('').map(Number)
Number(c) ==
    CASE c = "0" -> 0 [] c = "1" -> 1 [] c = "2" -> 2 [] c = "3" -> 3
      [] c = "4" -> 4 [] c = "5" -> 5 [] c = "6" -> 6 [] c = "7" -> 7
      [] c = "8" -> 8 [] c = "9" -> 9

\* /^\d{n}$/.test(code): exactly n characters, each an ASCII digit
TestDigits(code, n) ==
    /\ code # Null
    /\ Len(code) = n
    /\ \A i \in 1..n : code[i] \in DigitChars

\* digits.slice(from, to) with 0-based from (inclusive) and to (exclusive)
Slice(s, from, to) == SubSeq(s, from + 1, to)

\* String(raw).replace(/\D/g, ''): the digits of raw, in order
RECURSIVE StripNonDigits(_)
StripNonDigits(s) ==
    IF s = <<>> THEN <<>>
    ELSE IF Head(s) \in DigitChars
         THEN <<Head(s)>> \o StripNonDigits(Tail(s))
         ELSE StripNonDigits(Tail(s))

(***************************************************************************)
(* Check digits                                                            *)
(***************************************************************************)
\* the loop of isValidEAN13: sum += digits[i] * (i % 2 === 0 ? 1 : 3), i < n
RECURSIVE SumEAN13(_, _)
SumEAN13(digits, n) ==
    IF n = 0 THEN 0
    ELSE SumEAN13(digits, n - 1)
         + digits[n - 1] * (IF (n - 1) % 2 = 0 THEN 1 ELSE 3)

\* the weights exchanged: i % 2 === 0 ? 3 : 1
RECURSIVE SumEAN13_Swapped(_, _)
SumEAN13_Swapped(digits, n) ==
    IF n = 0 THEN 0
    ELSE SumEAN13_Swapped(digits, n - 1)
         + digits[n - 1] * (IF (n - 1) % 2 = 0 THEN 3 ELSE 1)

isValidEAN13_SwappedWeights(code) ==
    IF ~TestDigits(code, 13) THEN FALSE
    ELSE LET digits == [i \in 0..12 |-> Number(code[i + 1])]
             check  == digits[12]
             sum    == SumEAN13_Swapped(digits, 12)
             calc   == (10 - (sum % 10)) % 10
         IN  calc = check

\* a slip in the final reduction: calc = 10 - (sum % 10), never 0
isValidEAN13_NoOuterMod(code) ==
    IF ~TestDigits(code, 13) THEN FALSE
    ELSE LET digits == [i \in 0..12 |-> Number(code[i + 1])]
             check  == digits[12]
             sum    == SumEAN13(digits, 12)
             calc   == 10 - (sum % 10)
         IN  calc = check

isValidEAN13(code) ==
    IF ~TestDigits(code, 13) THEN FALSE
    ELSE LET digits == [i \in 0..12 |-> Number(code[i + 1])]
             check  == digits[12]
             sum    == SumEAN13(digits, 12)
             calc   == (10 - (sum % 10)) % 10
         IN  calc = check

\* the loop of isValidUPCA: sumOdd over even i, sumEven over odd i, i < n
RECURSIVE SumOddUPCA(_, _)
SumOddUPCA(digits, n) ==
    IF n = 0 THEN 0
    ELSE SumOddUPCA(digits, n - 1)
         + (IF (n - 1) % 2 = 0 THEN digits[n - 1] ELSE 0)

RECURSIVE SumEvenUPCA(_, _)
SumEvenUPCA(digits, n) ==
    IF n = 0 THEN 0
    ELSE SumEvenUPCA(digits, n - 1)
         + (IF (n - 1) % 2 = 0 THEN 0 ELSE digits[n - 1])

\* the weights exchanged: the EAN-13 weighting applied to a 12-digit code
isValidUPCA_SwappedWeights(code) ==
    IF ~TestDigits(code, 12) THEN FALSE
    ELSE LET digits  == [i \in 0..11 |-> Number(code[i + 1])]
             check   == digits[11]
             sumOdd  == SumOddUPCA(digits, 11)
             sumEven == SumEvenUPCA(digits, 11)
             calc    == (10 - ((sumOdd + sumEven * 3) % 10)) % 10
         IN  calc = check

isValidUPCA(code) ==
    IF ~TestDigits(code, 12) THEN FALSE
    ELSE LET digits  == [i \in 0..11 |-> Number(code[i + 1])]
             check   == digits[11]
             sumOdd  == SumOddUPCA(digits, 11)
             sumEven == SumEvenUPCA(digits, 11)
             calc    == (10 - ((sumOdd * 3 + sumEven) % 10)) % 10
         IN  calc = check

\* the end anchor forgotten (/^\d{8}/): eight leading digits are enough
isValidEAN8_NoEndAnchor(code) ==
    IF code = Null \/ Len(code) < 8 \/ \E i \in 1..8 : code[i] \notin DigitChars
    THEN FALSE
    ELSE LET d     == [i \in 0..7 |-> Number(code[i + 1])]
             check == d[7]
             calc  == (10 - ((3 * (d[0] + d[2] + d[4] + d[6])
                              + (d[1] + d[3] + d[5])) % 10)) % 10
         IN  calc = check

isValidEAN8(code) ==
    IF ~TestDigits(code, 8) THEN FALSE
    ELSE LET d     == [i \in 0..7 |-> Number(code[i + 1])]
             check == d[7]
             calc  == (10 - ((3 * (d[0] + d[2] + d[4] + d[6])
                              + (d[1] + d[3] + d[5])) % 10)) % 10
         IN  calc = check

(***************************************************************************)
(* Sliding-window search                                                   *)
(***************************************************************************)
\* a TypeError escaping the function (reading .length or .slice of null)
Throw == <<"TypeError">>

\* the four validators handed to win(len, validator)
Validator(kind, sub) ==
    CASE kind = "ean13" -> isValidEAN13(sub)
      [] kind = "upca"  -> isValidUPCA(sub)
      [] kind = "ean8"  -> isValidEAN8(sub)
      [] kind = "lead0" -> isValidEAN13(Slice(sub, 1, Len(sub)))

\* the loop of win, from index i on: the first window the validator accepts
RECURSIVE WinFrom(_, _, _, _)
WinFrom(digits, len, kind, i) ==
    IF i + len <= Len(digits)
    THEN LET sub == Slice(digits, i, i + len)
         IN  IF Validator(kind, sub) THEN sub
             ELSE WinFrom(digits, len, kind, i + 1)
    ELSE Null

\* the loop run from the right end: the last window the validator accepts
RECURSIVE WinLastFrom(_, _, _, _)
WinLastFrom(digits, len, kind, i) ==
    IF i + len <= Len(digits)
    THEN LET sub  == Slice(digits, i, i + len)
             rest == WinLastFrom(digits, len, kind, i + 1)
         IN  IF rest # Null THEN rest
             ELSE IF Validator(kind, sub) THEN sub ELSE Null
    ELSE Null

win_LastMatch(digits, len, kind) ==
    IF digits = Null THEN Throw ELSE WinLastFrom(digits, len, kind, 0)

win(digits, len, kind) ==
    IF digits = Null THEN Throw ELSE WinFrom(digits, len, kind, 0)

\* the search order reversed: the shortest symbology first
findValidBarcodeInString_ShortFirst(digits) ==
    IF digits = Null \/ digits = <<>> THEN Null
    ELSE LET s8  == win(digits, 8, "ean8")
             s12 == win(digits, 12, "upca")
             s13 == win(digits, 13, "ean13")
         IN  IF s8 # Null THEN s8
             ELSE IF s12 # Null THEN s12
             ELSE IF s13 # Null THEN s13
             ELSE Null

\* the 14-digit step tried before the others, its window returned whole
findValidBarcodeInString_Lead0First(digits) ==
    IF digits = Null \/ digits = <<>> THEN Null
    ELSE LET s14 == win(digits, 14, "lead0")
             s13 == win(digits, 13, "ean13")
             s12 == win(digits, 12, "upca")
             s8  == win(digits, 8, "ean8")
         IN  IF Len(digits) >= 14 /\ s14 # Null THEN s14
             ELSE IF s13 # Null THEN s13
             ELSE IF s12 # Null THEN s12
             ELSE IF s8 # Null THEN s8
             ELSE Null

findValidBarcodeInString(digits) ==
    IF digits = Null \/ digits = <<>> THEN Null
    ELSE LET s13 == win(digits, 13, "ean13")
             s12 == win(digits, 12, "upca")
             s8  == win(digits, 8, "ean8")
         IN  IF s13 # Null THEN s13
             ELSE IF s12 # Null THEN s12
             ELSE IF s8 # Null THEN s8
             ELSE IF Len(digits) >= 14
                  THEN LET s14 == win(digits, 14, "lead0")
                       IN  IF s14 # Null THEN Slice(s14, 1, Len(s14))
                           ELSE Null
                  ELSE Null

\* the digits are not extracted: the raw string is searched as it is
normalizeAndValidateBarcode_NoStrip(raw) ==
    IF raw = Null \/ raw = <<>> THEN Null
    ELSE findValidBarcodeInString(raw)

normalizeAndValidateBarcode(raw) ==
    IF raw = Null \/ raw = <<>> THEN Null
    ELSE LET digits == StripNonDigits(raw)
         IN  findValidBarcodeInString(digits)

(***************************************************************************)
(* Sample codes                                                            *)
(***************************************************************************)
NoCall == [fn |-> "none", arg |-> Null, out |-> Null]

\* the README's test barcode without its last digit
SeedReadme12 == <<"8","9","0","1","0","3","0","1","2","3","4","5">>
\* the same prefix with the check digit the EAN-13 rule computes
SeedEan13 == <<"8","9","0","1","0","3","0","1","2","3","4","5","0">>
\* a UPC-A code and its first eleven digits
SeedUpca == <<"0","3","6","0","0","0","2","9","1","4","5","2">>
SeedUpca11 == <<"0","3","6","0","0","0","2","9","1","4","5">>
\* an EAN-8 code and its first seven digits
SeedEan8 == <<"7","3","5","1","3","5","3","7">>
SeedEan8Seven == <<"7","3","5","1","3","5","3">>

Seeds ==
    {<<>>, SeedReadme12, SeedEan13, SeedUpca, SeedUpca11, SeedEan8, SeedEan8Seven}

(***************************************************************************)
(* Backend: ROI detector (Hugging Face) and ZXing decoder                  *)
(***************************************************************************)
\* candidates the detection service may answer with, and the length of its list
MaxDet == 2

\* one element of the service's JSON array: the shape of its box and four
\* numbers (xmin, ymin, xmax, ymax for "obj" and "nested"; x, y, w, h for
\* "arr"), written in tenths of a pixel: 104 is 10.4
RawItems ==
    { [shape |-> "obj",    a |-> 104, b |-> 100, c |-> 1104, d |-> 600, score |-> 9],
      [shape |-> "obj",    a |-> 2,   b |-> 2,   c |-> 42,   d |-> 43,  score |-> 5],
      [shape |-> "obj",    a |-> 50,  b |-> 50,  c |-> 74,   d |-> 74,  score |-> 7],
      [shape |-> "nested", a |-> -36, b |-> 200, c |-> 364,  d |-> 400, score |-> 3],
      [shape |-> "arr",    a |-> 300, b |-> 300, c |-> 500,  d |-> 500, score |-> 8] }

\* Math.round of a number of tenths: the nearest integer, halves upwards
Round(tenths) == (tenths + 5) \div 10

RECURSIVE SeqsUpTo(_, _)
SeqsUpTo(S, n) ==
    IF n = 0 THEN {<<>>}
    ELSE LET shorter == SeqsUpTo(S, n - 1)
         IN  shorter \cup {Append(s, x) : s \in shorter, x \in S}

\* what the call of the detection service ends in
DetectOutcomes ==
    {[kind |-> k, data |-> <<>>] :
        k \in {"nokey", "network", "http", "loading", "nonarray", "silent"}}
    \cup {[kind |-> "array", data |-> r] : r \in SeqsUpTo(RawItems, MaxDet)}

MaxOf(x, y) == IF x >= y THEN x ELSE y

\* an array-valued box reaches the [x, y, w, h] branch
NormalizeBox_ArrayBranch(d) ==
    LET xywh ==
          IF d.shape = "arr" THEN <<d.a, d.b, d.c, d.d>>
          ELSE <<d.a, d.b, MaxOf(0, d.c - d.a), MaxOf(0, d.d - d.b)>>
    IN  [box |-> [k \in 1..4 |-> Round(xywh[k])], score |-> d.score]

\* the body of data.map in detectBarcodesHF
NormalizeBox(d) ==
    LET xywh ==
          IF d.shape \in {"obj", "arr"}
          THEN \* d.box is truthy: the first branch is taken
               IF d.shape = "obj"
               THEN <<d.a, d.b, MaxOf(0, d.c - d.a), MaxOf(0, d.d - d.b)>>
               ELSE <<0, 0, 0, 0>>
          ELSE IF d.shape = "nested"
               THEN <<d.a, d.b, MaxOf(0, d.c - d.a), MaxOf(0, d.d - d.b)>>
               ELSE <<0, 0, 0, 0>>
    IN  [box |-> [k \in 1..4 |-> Round(xywh[k])], score |-> d.score]

\* the filter keeps a box of width and height 2
KeepBox_AtLeast2(b) == b.box[3] >= 2 /\ b.box[4] >= 2

\* .filter(b => b.box[2] > 2 && b.box[3] > 2)
KeepBox(b) == b.box[3] > 2 /\ b.box[4] > 2

RECURSIVE MapFilterBoxes(_)
MapFilterBoxes(data) ==
    IF data = <<>> THEN <<>>
    ELSE LET b == NormalizeBox(Head(data))
         IN  (IF KeepBox(b) THEN <<b>> ELSE <<>>) \o MapFilterBoxes(Tail(data))

\* await fetch(HF_API_URL, {...}): the promise settles when the service
\* answers or the connection fails; the call sets no timeout and no signal
Settles(outcome) == outcome.kind # "silent"

\* detectBarcodesHF: [threw |-> TRUE] or [threw |-> FALSE, boxes |-> list]
detectBarcodesHF(outcome) ==
    IF outcome.kind \in {"nokey", "network", "http", "loading"}
    THEN [threw |-> TRUE, boxes |-> <<>>]
    ELSE IF outcome.kind = "nonarray"
         THEN [threw |-> FALSE, boxes |-> <<>>]
         ELSE [threw |-> FALSE, boxes |-> MapFilterBoxes(outcome.data)]

\* a reader finding no barcode, and a result whose text is empty
NotFound == <<"NotFoundException">>
EmptyText == <<>>

Space == " "

\* texts a decoder may emit: a valid EAN-13 code, the README's sample code
\* (its check digit is wrong) and a valid UPC-A code between two blanks
Texts == {SeedEan13, SeedReadme12 \o <<"6">>, <<Space>> \o SeedUpca \o <<Space>>}

\* String.prototype.trim on the blank
RECURSIVE TrimLeft(_)
TrimLeft(s) ==
    IF s # <<>> /\ Head(s) = Space THEN TrimLeft(Tail(s)) ELSE s

RECURSIVE TrimRight(_)
TrimRight(s) ==
    IF s # <<>> /\ s[Len(s)] = Space THEN TrimRight(SubSeq(s, 1, Len(s) - 1)) ELSE s

Trim(s) == TrimRight(TrimLeft(s))

\* what a buffer holds for the decoder: whether sharp can load it and what
\* reader.decode makes of it at 0, 90, 180 and 270 degrees
ZXingViews ==
    [loads : {TRUE}, rot : [1..4 -> {NotFound, EmptyText} \cup Texts]]
    \cup {[loads |-> FALSE, rot |-> [k \in 1..4 |-> NotFound]]}

\* the loop goes through all four rotations and keeps the last text decoded
RECURSIVE TryRotations_LastWins(_, _)
TryRotations_LastWins(view, k) ==
    IF k > 4 THEN Null
    ELSE LET later == TryRotations_LastWins(view, k + 1)
         IN  IF later # Null THEN later
             ELSE IF view.rot[k] \in {NotFound, EmptyText} THEN Null
             ELSE view.rot[k]

\* the loop over attempts = [0, 90, 180, 270] of decodeBarcodeWithZXing
RECURSIVE TryRotations(_, _)
TryRotations(view, k) ==
    IF k > 4 THEN Null
    ELSE IF view.rot[k] = NotFound THEN TryRotations(view, k + 1)
    ELSE IF view.rot[k] = EmptyText THEN Null
    ELSE view.rot[k]

\* decodeBarcodeWithZXing: the text, Null, or Throw when sharp cannot load
decodeBarcodeWithZXing(view) ==
    IF ~view.loads THEN Throw ELSE TryRotations(view, 1)

(***************************************************************************)
(* Backend: POST /api/barcode/extract                                      *)
(***************************************************************************)
NoResp == [status |-> 0, boxes |-> <<>>, barcodes |-> <<>>]

ErrResp(code) == [status |-> code, boxes |-> <<>>, barcodes |-> <<>>]

ExIdle ==
    /\ exPc = "idle"
    /\ exUpload = "none"
    /\ exHfFailed = FALSE
    /\ exDetections = <<>>
    /\ exIdx = 0
    /\ exScale = 0
    /\ exBase = "none"
    /\ exBarcodes = <<>>
    /\ exAttempts = <<>>
    /\ exResp = NoResp
    /\ exCropFailed = {}
    /\ exDecodedFrom = <<>>

\* uploads: a good image, no file, a file over 6MB, a file of another type,
\* and a file of an allowed type with no bytes, which multer's memory storage
\* hands over as an empty Buffer in req.file.buffer
Uploads == {"image", "missing", "toolarge", "badtype", "empty"}

\* sharp(imageBuffer) fails on an empty buffer whatever is asked of it
SharpReads(upload) == upload # "empty"

\* the multer wrapper and the first test of extractHandler
ExRequest(upload) ==
    /\ exPc = "idle"
    /\ scPc = "idle"
    /\ exUpload' = upload
    /\ IF upload = "toolarge"
       THEN exPc' = "done" /\ exResp' = ErrResp(413)
       ELSE IF upload = "badtype"
       THEN exPc' = "done" /\ exResp' = ErrResp(415)
       ELSE IF upload = "missing"
       THEN exPc' = "done" /\ exResp' = ErrResp(400)
       ELSE exPc' = "detect" /\ exResp' = NoResp
    /\ UNCHANGED <<exHfFailed, exDetections, exIdx, exScale, exBase,
                   exBarcodes, exAttempts, exCropFailed, exDecodedFrom, chkVars, scVars, cvVars, zxVars, vdVars>>

\* the detector's failure is not caught: the handler's outer catch answers 500
ExDetect_NoCatch(outcome) ==
    /\ exPc = "detect"
    /\ LET r == detectBarcodesHF(outcome)
       IN  IF ~Settles(outcome)
           THEN exPc' = "awaitDetect" /\ UNCHANGED <<exHfFailed, exDetections, exIdx, exResp>>
           ELSE IF r.threw
           THEN /\ exHfFailed' = TRUE
                /\ exDetections' = <<>>
                /\ exPc' = "done"
                /\ exResp' = ErrResp(500)
                /\ exIdx' = exIdx
           ELSE /\ exHfFailed' = FALSE
                /\ exDetections' = r.boxes
                /\ exPc' = IF Len(r.boxes) > 0 THEN "roi" ELSE "fallback"
                /\ exIdx' = IF Len(r.boxes) > 0 THEN 1 ELSE exIdx
                /\ exResp' = exResp
    /\ UNCHANGED <<exUpload, exScale, exBase, exBarcodes, exAttempts, exCropFailed, exDecodedFrom, chkVars, scVars, cvVars, zxVars, vdVars>>

\* step 1: await detectBarcodesHF(imageBuffer) in its try/catch, and the
\* choice between the per-detection loop and the full-image fallback; while
\* the service stays silent the handler stays at the await
ExDetect(outcome) ==
    /\ exPc = "detect"
    /\ LET r == detectBarcodesHF(outcome)
       IN  IF ~Settles(outcome)
           THEN exPc' = "awaitDetect" /\ UNCHANGED <<exHfFailed, exDetections, exIdx>>
           ELSE /\ exHfFailed' = r.threw
                /\ exDetections' = (IF r.threw THEN <<>> ELSE r.boxes)
                /\ exPc' = IF ~r.threw /\ Len(r.boxes) > 0 THEN "roi" ELSE "fallback"
                /\ exIdx' = IF ~r.threw /\ Len(r.boxes) > 0 THEN 1 ELSE exIdx
    /\ UNCHANGED <<exUpload, exScale, exBase, exBarcodes, exAttempts, exResp,
                   exCropFailed, exDecodedFrom, chkVars, scVars, cvVars, zxVars, vdVars>>

\* the loop does not advance: the same detection is taken again
ExNextDetection_Repeats == exPc' = "roi" /\ exIdx' = exIdx /\ exScale' = 0

\* after the last detection the handler goes on to the full image
ExNextDetection_ThenFullImage ==
    IF exIdx + 1 <= Len(exDetections)
    THEN exPc' = "roi" /\ exIdx' = exIdx + 1 /\ exScale' = 0
    ELSE exPc' = "fallback" /\ exIdx' = exIdx /\ exScale' = 0

\* the loop moves to the next detection, or leaves for the response
ExNextDetection ==
    IF exIdx + 1 <= Len(exDetections)
    THEN exPc' = "roi" /\ exIdx' = exIdx + 1 /\ exScale' = 0
    ELSE exPc' = "respond" /\ exIdx' = exIdx /\ exScale' = 0

\* top of the loop body: the size test, then the crop with sharp
ExCrop(cropOk) ==
    /\ exPc = "roi"
    /\ LET box == exDetections[exIdx].box
       IN  IF box[3] < 5 \/ box[4] < 5
           THEN ExNextDetection /\ UNCHANGED exCropFailed
           ELSE IF cropOk /\ SharpReads(exUpload)
           THEN /\ exPc' = "roiDecode" /\ exScale' = 1 /\ exIdx' = exIdx
                /\ UNCHANGED exCropFailed
           ELSE ExNextDetection /\ exCropFailed' = exCropFailed \cup {exIdx}
    /\ UNCHANGED <<exUpload, exHfFailed, exDetections, exBase, exBarcodes,
                   exAttempts, exResp, exDecodedFrom, chkVars, scVars, cvVars, zxVars, vdVars>>

\* the scale loop on the crop without its break: a decoded text is pushed
\* and the next scale of the same crop is decoded too
ExDecodeCrop_NoBreak(view) ==
    /\ exPc = "roiDecode"
    /\ exAttempts' = Append(exAttempts, [target |-> exIdx, scale |-> exScale])
    /\ LET decoded == decodeBarcodeWithZXing(view)
           det     == exDetections[exIdx]
       IN  /\ IF decoded \notin {Throw, Null}
              THEN /\ exBarcodes' = Append(exBarcodes,
                         [text |-> Trim(decoded), box |-> det.box, score |-> det.score])
                   /\ exDecodedFrom' = Append(exDecodedFrom, exIdx)
              ELSE UNCHANGED <<exBarcodes, exDecodedFrom>>
           /\ IF decoded # Throw /\ exScale < 3
              THEN exScale' = exScale + 1 /\ UNCHANGED <<exPc, exIdx>>
              ELSE ExNextDetection
    /\ UNCHANGED <<exUpload, exHfFailed, exDetections, exBase, exResp,
                   exCropFailed, chkVars, scVars, cvVars, zxVars, vdVars>>

\* the pushed entry carries the box and score of the first detection
ExDecodeCrop_FirstBox(view) ==
    /\ exPc = "roiDecode"
    /\ exAttempts' = Append(exAttempts, [target |-> exIdx, scale |-> exScale])
    /\ LET decoded == decodeBarcodeWithZXing(view)
           det     == exDetections[1]
       IN  IF decoded = Throw
           THEN ExNextDetection /\ UNCHANGED <<exBarcodes, exDecodedFrom>>
           ELSE IF decoded # Null
           THEN /\ exBarcodes' = Append(exBarcodes,
                      [text |-> Trim(decoded), box |-> det.box, score |-> det.score])
                /\ exDecodedFrom' = Append(exDecodedFrom, exIdx)
                /\ ExNextDetection
           ELSE IF exScale < 3
           THEN /\ exScale' = exScale + 1
                /\ UNCHANGED <<exPc, exIdx, exBarcodes, exDecodedFrom>>
           ELSE ExNextDetection /\ UNCHANGED <<exBarcodes, exDecodedFrom>>
    /\ UNCHANGED <<exUpload, exHfFailed, exDetections, exBase, exResp,
                   exCropFailed, chkVars, scVars, cvVars, zxVars, vdVars>>

\* one pass of the scale loop on the crop: resize and decodeBarcodeWithZXing
ExDecodeCrop(view) ==
    /\ exPc = "roiDecode"
    /\ exAttempts' = Append(exAttempts, [target |-> exIdx, scale |-> exScale])
    /\ LET decoded == decodeBarcodeWithZXing(view)
           det     == exDetections[exIdx]
       IN  IF decoded = Throw
           THEN ExNextDetection /\ UNCHANGED <<exBarcodes, exDecodedFrom>>
           ELSE IF decoded # Null
           THEN /\ exBarcodes' = Append(exBarcodes,
                      [text |-> Trim(decoded), box |-> det.box, score |-> det.score])
                /\ exDecodedFrom' = Append(exDecodedFrom, exIdx)
                /\ ExNextDetection
           ELSE IF exScale < 3
           THEN /\ exScale' = exScale + 1
                /\ UNCHANGED <<exPc, exIdx, exBarcodes, exDecodedFrom>>
           ELSE ExNextDetection /\ UNCHANGED <<exBarcodes, exDecodedFrom>>
    /\ UNCHANGED <<exUpload, exHfFailed, exDetections, exBase, exResp,
                   exCropFailed, chkVars, scVars, cvVars, zxVars, vdVars>>

\* the fallback branch: the full image converted to PNG
ExFallbackBase(ok) ==
    /\ exPc = "fallback"
    /\ LET converted == ok /\ SharpReads(exUpload)
       IN  /\ exBase' = IF converted THEN "ok" ELSE "failed"
           /\ exPc' = IF converted THEN "fallbackDecode" ELSE "respond"
           /\ exScale' = IF converted THEN 1 ELSE exScale
    /\ UNCHANGED <<exUpload, exHfFailed, exDetections, exIdx, exBarcodes,
                   exAttempts, exResp, exCropFailed, exDecodedFrom, chkVars, scVars, cvVars, zxVars, vdVars>>

\* one pass of the scale loop on the full image
ExDecodeFull(view) ==
    /\ exPc = "fallbackDecode"
    /\ exAttempts' = Append(exAttempts, [target |-> 0, scale |-> exScale])
    /\ LET decoded == decodeBarcodeWithZXing(view)
       IN  IF decoded = Throw
           THEN exPc' = "respond" /\ UNCHANGED <<exScale, exBarcodes, exDecodedFrom>>
           ELSE IF decoded # Null
           THEN /\ exBarcodes' = Append(exBarcodes,
                      [text |-> Trim(decoded), box |-> <<0, 0, 0, 0>>, score |-> 0])
                /\ exDecodedFrom' = Append(exDecodedFrom, 0)
                /\ exPc' = "respond"
                /\ UNCHANGED exScale
           ELSE IF exScale < 3
           THEN exScale' = exScale + 1 /\ UNCHANGED <<exPc, exBarcodes, exDecodedFrom>>
           ELSE exPc' = "respond" /\ UNCHANGED <<exScale, exBarcodes, exDecodedFrom>>
    /\ UNCHANGED <<exUpload, exHfFailed, exDetections, exIdx, exBase, exResp,
                   exCropFailed, chkVars, scVars, cvVars, zxVars, vdVars>>

\* step 3: res.json({ boxes: detections, barcodes })
ExRespond ==
    /\ exPc = "respond"
    /\ exPc' = "done"
    /\ exResp' = [status |-> 200, boxes |-> exDetections, barcodes |-> exBarcodes]
    /\ UNCHANGED <<exUpload, exHfFailed, exDetections, exIdx, exScale, exBase,
                   exBarcodes, exAttempts, exCropFailed, exDecodedFrom, chkVars, scVars, cvVars, zxVars, vdVars>>

NextExtract ==
    \/ \E upload \in Uploads : ExRequest(upload)
    \/ \E outcome \in DetectOutcomes : ExDetect(outcome)
    \/ \E cropOk \in BOOLEAN : ExCrop(cropOk)
    \/ \E view \in ZXingViews : ExDecodeCrop(view)
    \/ \E ok \in BOOLEAN : ExFallbackBase(ok)
    \/ \E view \in ZXingViews : ExDecodeFull(view)
    \/ ExRespond

(***************************************************************************)
(* Frontend: scanBarcodeFromImage and scanBarcodeFromCanvas                *)
(***************************************************************************)
\* ROI canvases detectRoiCanvases may return
MaxRois == 1

Pending == [kind |-> "pending", text |-> <<>>, engine |-> "none", msg |-> "", why |-> ""]

Returned(text, engine) ==
    [kind |-> "return", text |-> text, engine |-> engine, msg |-> "", why |-> ""]

Thrown(msg, why) ==
    [kind |-> "throw", text |-> <<>>, engine |-> "none", msg |-> msg, why |-> why]

\* what the outer catch of scanBarcodeFromImage throws, and the last line of
\* scanBarcodeFromCanvas
NoBarcodeMsg(fn) ==
    IF fn = "image" THEN "No barcode detected in image"
    ELSE "No barcode detected in ROI"

ScIdle ==
    /\ scPc = "idle"
    /\ scFn = "none"
    /\ scHasBD = FALSE
    /\ scDetectFailed = FALSE
    /\ scRois = 0
    /\ scIdx = 0
    /\ scAttempts = <<>>
    /\ scLastError = FALSE
    /\ scCalls = <<>>
    /\ scResult = Pending

Scales == <<600, 1000, 1400, 2000>>

Variants == <<"@0", "@90", "@180", "@270", "@hband", "@vband">>

\* the two centre bands are pushed before the four rotations
pushVariants_BandsFirst(base, n) ==
    [i \in 1..6 |-> [base |-> base, n |-> n,
                     variant |-> Variants[IF i <= 2 THEN i + 4 ELSE i - 2]]]

\* pushVariants(sourceCanvas, baseLabel): six labelled canvases
pushVariants(base, n) ==
    [i \in 1..6 |-> [base |-> base, n |-> n, variant |-> Variants[i]]]

\* the loop over roiCanvases.entries(), from ROI idx on (idx counts from 0)
RECURSIVE RoiAttempts(_, _)
RoiAttempts(idx, rois) ==
    IF idx >= rois THEN <<>>
    ELSE pushVariants("roi", idx) \o pushVariants("roi-contrast", idx)
         \o RoiAttempts(idx + 1, rois)

\* the loop over scales, from the k-th scale on
RECURSIVE ScaleAttempts(_)
ScaleAttempts(k) ==
    IF k > Len(Scales) THEN <<>>
    ELSE pushVariants("base", Scales[k]) \o pushVariants("contrast", Scales[k])
         \o ScaleAttempts(k + 1)

\* attempts of scanBarcodeFromImage
ImageAttempts(rois, preOk) ==
    RoiAttempts(0, rois) \o ScaleAttempts(1)
    \o (IF preOk THEN pushVariants("ocr", 1600) ELSE <<>>)

\* attempts of scanBarcodeFromCanvas
CanvasAttempts == pushVariants("roi-base", 0) \o pushVariants("roi-contrast", 0)

\* what an engine call ends in: a text, nothing (Null) or an exception (Throw)
EngineOutcomes == {Null, Throw, EmptyText} \cup Texts

\* what Tesseract reads: an exception or a text with other characters in it
OcrOutcomes ==
    {Throw, <<>>, SeedReadme12 \o <<"6">>, <<"-">> \o SeedEan13 \o <<"-", "7">>,
     <<"4">> \o SeedEan8 \o <<" ">>}

\* ocrDigitsFromCanvas, ocrDigitsFromFile
ocrDigits(outcome) ==
    IF outcome = Throw THEN <<>> ELSE StripNonDigits(outcome)

\* the engine calls made, in order: the engine, the index in the loop that
\* made the call, and whether the call produced the result that is returned
Logged(engine, ok) ==
    Append(scCalls, [engine |-> engine, idx |-> scIdx, ok |-> ok])

ScSettle(result) ==
    /\ scPc' = "done"
    /\ scResult' = result

\* where the scanner goes after the ZXing attempts and the BarcodeDetector
ScToOcr ==
    IF scRois > 0
    THEN scPc' = "ocrRoi" /\ scIdx' = 1
    ELSE scPc' = "ocrFull" /\ scIdx' = 0

\* a call of scanBarcodeFromImage(file) or scanBarcodeFromCanvas(canvas)
ScCall(fn, hasBD) ==
    /\ scPc = "idle"
    /\ exPc = "idle"
    /\ scFn' = fn
    /\ scHasBD' = hasBD
    /\ IF fn = "image"
       THEN scPc' = "load" /\ UNCHANGED <<scRois, scIdx>>
       ELSE scPc' = "quaggaRoi" /\ scRois' = 1 /\ scIdx' = 1
    /\ UNCHANGED <<scDetectFailed, scAttempts, scLastError, scCalls, scResult,
                   chkVars, exVars, cvVars, zxVars, vdVars>>

\* const img = await fileToImage(imageFile)
ScLoadImage(ok) ==
    /\ scPc = "load"
    /\ IF ok
       THEN scPc' = "detectRoi" /\ UNCHANGED scResult
       ELSE ScSettle(Thrown(NoBarcodeMsg("image"), "error"))
    /\ UNCHANGED <<scFn, scHasBD, scDetectFailed, scRois, scIdx, scAttempts,
                   scLastError, scCalls, chkVars, exVars, cvVars, zxVars, vdVars>>

\* const roiCanvases = await detectRoiCanvases(img): n canvases were pushed
\* when the function returned or the detector threw
ScDetectRois(n, failed) ==
    /\ scPc = "detectRoi"
    /\ scHasBD \/ (n = 0 /\ ~failed)
    /\ scRois' = n
    /\ scDetectFailed' = failed
    /\ IF n > 0
       THEN scPc' = "quaggaRoi" /\ scIdx' = 1
       ELSE scPc' = "quaggaFull" /\ scIdx' = 0
    /\ UNCHANGED <<scFn, scHasBD, scAttempts, scLastError, scCalls, scResult,
                   chkVars, exVars, cvVars, zxVars, vdVars>>

\* quaggaDecodeCanvas on the ROI scIdx (on the canvas itself in FromCanvas)
ScQuaggaRoi(outcome) ==
    /\ scPc = "quaggaRoi"
    /\ outcome # EmptyText
    /\ scCalls' = Logged("Quagga", outcome \notin {Throw, Null})
    /\ IF outcome = Throw
       THEN scPc' = "build" /\ scIdx' = 0 /\ UNCHANGED scResult
       ELSE IF outcome # Null
       THEN ScSettle(Returned(outcome, "Quagga")) /\ UNCHANGED scIdx
       ELSE IF scIdx < scRois
       THEN scIdx' = scIdx + 1 /\ UNCHANGED <<scPc, scResult>>
       ELSE /\ scPc' = IF scFn = "image" THEN "quaggaFull" ELSE "build"
            /\ scIdx' = 0
            /\ UNCHANGED scResult
    /\ UNCHANGED <<scFn, scHasBD, scDetectFailed, scRois, scAttempts,
                   scLastError, chkVars, exVars, cvVars, zxVars, vdVars>>

\* quaggaDecodeImage(imageFile)
ScQuaggaFull(outcome) ==
    /\ scPc = "quaggaFull"
    /\ outcome # EmptyText
    /\ scCalls' = Logged("Quagga", outcome \notin {Throw, Null})
    /\ IF outcome \notin {Throw, Null}
       THEN ScSettle(Returned(outcome, "Quagga"))
       ELSE scPc' = "build" /\ UNCHANGED scResult
    /\ UNCHANGED <<scFn, scHasBD, scDetectFailed, scRois, scIdx, scAttempts,
                   scLastError, chkVars, exVars, cvVars, zxVars, vdVars>>

\* the attempts are prepared: ok is whether the canvas transforms went
\* through, preOk whether preprocessImage did
ScBuild(ok, preOk) ==
    /\ scPc = "build"
    /\ IF ~ok
       THEN /\ ScSettle(Thrown(IF scFn = "image" THEN NoBarcodeMsg("image")
                                ELSE "InvalidStateError", "error"))
            /\ UNCHANGED <<scAttempts, scIdx>>
       ELSE /\ scAttempts' = IF scFn = "image" THEN ImageAttempts(scRois, preOk)
                             ELSE CanvasAttempts
            /\ scPc' = "zxing"
            /\ scIdx' = 1
            /\ UNCHANGED scResult
    /\ UNCHANGED <<scFn, scHasBD, scDetectFailed, scRois, scLastError, scCalls,
                   chkVars, exVars, cvVars, zxVars, vdVars>>

\* the loop over attempts does not return at the first decode: it goes on and
\* returns what the last decoding attempt gave
ScZXing_NoEarlyReturn(outcome) ==
    /\ scPc = "zxing"
    /\ scCalls' = Logged("ZXing", outcome \notin {Throw, Null})
    /\ IF outcome \notin {Throw, Null} /\ scIdx = Len(scAttempts)
       THEN ScSettle(Returned(outcome, "ZXing")) /\ UNCHANGED <<scIdx, scLastError>>
       ELSE /\ scLastError' = (scLastError \/ (outcome = Throw /\ scFn = "image"))
            /\ UNCHANGED scResult
            /\ IF scIdx < Len(scAttempts)
               THEN scIdx' = scIdx + 1 /\ UNCHANGED scPc
               ELSE IF scHasBD
               THEN scPc' = "bd" /\ scIdx' = 0
               ELSE ScToOcr
    /\ UNCHANGED <<scFn, scHasBD, scDetectFailed, scRois, scAttempts,
                   chkVars, exVars, cvVars, zxVars, vdVars>>

\* after the last attempt the loop goes to OCR, the BarcodeDetector API is
\* left out
ScZXing_SkipsBarcodeDetector(outcome) ==
    /\ scPc = "zxing"
    /\ scCalls' = Logged("ZXing", outcome \notin {Throw, Null})
    /\ IF outcome \notin {Throw, Null}
       THEN ScSettle(Returned(outcome, "ZXing")) /\ UNCHANGED <<scIdx, scLastError>>
       ELSE /\ scLastError' = (scLastError \/ (outcome = Throw /\ scFn = "image"))
            /\ UNCHANGED scResult
            /\ IF scIdx < Len(scAttempts)
               THEN scIdx' = scIdx + 1 /\ UNCHANGED scPc
               ELSE ScToOcr
    /\ UNCHANGED <<scFn, scHasBD, scDetectFailed, scRois, scAttempts,
                   chkVars, exVars, cvVars, zxVars, vdVars>>

\* one pass of the loop over attempts: reader.decodeFromCanvas(canvas)
ScZXing(outcome) ==
    /\ scPc = "zxing"
    /\ scCalls' = Logged("ZXing", outcome \notin {Throw, Null})
    /\ IF outcome \notin {Throw, Null}
       THEN ScSettle(Returned(outcome, "ZXing")) /\ UNCHANGED <<scIdx, scLastError>>
       ELSE /\ scLastError' = (scLastError \/ (outcome = Throw /\ scFn = "image"))
            /\ UNCHANGED scResult
            /\ IF scIdx < Len(scAttempts)
               THEN scIdx' = scIdx + 1 /\ UNCHANGED scPc
               ELSE IF scHasBD
               THEN scPc' = "bd" /\ scIdx' = 0
               ELSE ScToOcr
    /\ UNCHANGED <<scFn, scHasBD, scDetectFailed, scRois, scAttempts,
                   chkVars, exVars, cvVars, zxVars, vdVars>>

\* the BarcodeDetector API on the largest base variant (on the canvas)
ScBarcodeDetector(outcome) ==
    /\ scPc = "bd"
    /\ scCalls' = Logged("BarcodeDetector", outcome \notin {Throw, Null, EmptyText})
    /\ IF outcome \notin {Throw, Null, EmptyText}
       THEN ScSettle(Returned(outcome, "BarcodeDetector"))
            /\ UNCHANGED <<scIdx, scLastError>>
       ELSE /\ scLastError' = (scLastError \/ (outcome = Throw /\ scFn = "image"))
            /\ UNCHANGED scResult
            /\ ScToOcr
    /\ UNCHANGED <<scFn, scHasBD, scDetectFailed, scRois, scAttempts,
                   chkVars, exVars, cvVars, zxVars, vdVars>>

\* the exhausted scanner returns null
ScExhausted_ReturnsNull == ScSettle(Returned(Null, "none"))

\* throw lastError || new Error(...) into the outer catch of FromImage; the
\* last line of FromCanvas
ScExhausted == ScSettle(Thrown(NoBarcodeMsg(scFn), "exhausted"))

\* OCR on the ROI scIdx, then the window search
ScOcrRoi(outcome) ==
    /\ scPc = "ocrRoi"
    /\ scCalls' = Logged("OCR", findValidBarcodeInString(ocrDigits(outcome)) # Null)
    /\ LET digits    == ocrDigits(outcome)
           candidate == findValidBarcodeInString(digits)
       IN  IF candidate # Null
           THEN ScSettle(Returned(candidate, "OCR")) /\ UNCHANGED scIdx
           ELSE IF scIdx < scRois
           THEN scIdx' = scIdx + 1 /\ UNCHANGED <<scPc, scResult>>
           ELSE IF scFn = "image"
           THEN scPc' = "ocrFull" /\ scIdx' = 0 /\ UNCHANGED scResult
           ELSE ScExhausted /\ UNCHANGED scIdx
    /\ UNCHANGED <<scFn, scHasBD, scDetectFailed, scRois, scAttempts,
                   scLastError, chkVars, exVars, cvVars, zxVars, vdVars>>

\* the digits Tesseract read are returned as they are
ScOcrFull_ReturnsDigits(outcome) ==
    /\ scPc = "ocrFull"
    /\ scCalls' = Logged("OCR", ocrDigits(outcome) # <<>>)
    /\ LET digitsFull == ocrDigits(outcome)
       IN  IF digitsFull # <<>>
           THEN ScSettle(Returned(digitsFull, "OCR"))
           ELSE ScExhausted
    /\ UNCHANGED <<scFn, scHasBD, scDetectFailed, scRois, scIdx, scAttempts,
                   scLastError, chkVars, exVars, cvVars, zxVars, vdVars>>

\* OCR on the whole file, then the window search
ScOcrFull(outcome) ==
    /\ scPc = "ocrFull"
    /\ scCalls' = Logged("OCR", findValidBarcodeInString(ocrDigits(outcome)) # Null)
    /\ LET digitsFull    == ocrDigits(outcome)
           candidateFull == findValidBarcodeInString(digitsFull)
       IN  IF candidateFull # Null
           THEN ScSettle(Returned(candidateFull, "OCR"))
           ELSE ScExhausted
    /\ UNCHANGED <<scFn, scHasBD, scDetectFailed, scRois, scIdx, scAttempts,
                   scLastError, chkVars, exVars, cvVars, zxVars, vdVars>>

NextScan ==
    \/ \E fn \in {"image", "canvas"}, hasBD \in BOOLEAN : ScCall(fn, hasBD)
    \/ \E ok \in BOOLEAN : ScLoadImage(ok)
    \/ \E n \in 0..MaxRois, failed \in BOOLEAN : ScDetectRois(n, failed)
    \/ \E outcome \in EngineOutcomes : ScQuaggaRoi(outcome)
    \/ \E outcome \in EngineOutcomes : ScQuaggaFull(outcome)
    \/ \E ok \in BOOLEAN, preOk \in BOOLEAN : ScBuild(ok, preOk)
    \/ \E outcome \in EngineOutcomes : ScZXing(outcome)
    \/ \E outcome \in EngineOutcomes : ScBarcodeDetector(outcome)
    \/ \E outcome \in OcrOutcomes : ScOcrRoi(outcome)
    \/ \E outcome \in OcrOutcomes : ScOcrFull(outcome)

(***************************************************************************)
(* Frontend: the canvas helpers drawScaled, rotateCanvas, toHighContrast   *)
(* and cropCenterBand, as functions of the width and height                *)
(***************************************************************************)
MaxSide == 6

MaxOps == 2

MinOf(x, y) == IF x <= y THEN x ELSE y

Abs(x) == IF x >= 0 THEN x ELSE -x

\* Math.round(num / den) for num >= 0 and den > 0; a quotient that lies
\* halfway between two integers goes up when the division is exact in
\* floating point and either way when it is not
RoundRatio(num, den, tieUp) ==
    IF (2 * num) % (2 * den) = den
    THEN IF tieUp THEN (num \div den) + 1 ELSE num \div den
    ELSE (2 * num + den) \div (2 * den)

\* drawScaled without Math.max(1, ...)
drawScaled_NoFloor(w, h, maxDim, tieUp) ==
    LET m == MaxOf(w, h)
    IN  IF maxDim >= m THEN <<w, h>>
        ELSE <<RoundRatio(w * maxDim, m, tieUp), RoundRatio(h * maxDim, m, tieUp)>>

\* drawScaled(img, maxDim): scale = Math.min(1, maxDim / Math.max(w, h))
drawScaled(w, h, maxDim, tieUp) ==
    LET m == MaxOf(w, h)
    IN  IF maxDim >= m THEN <<w, h>>
        ELSE <<MaxOf(1, RoundRatio(w * maxDim, m, tieUp)),
               MaxOf(1, RoundRatio(h * maxDim, m, tieUp))>>

\* Math.sin and Math.cos of the four angles, in tenths; what Math.PI leaves
\* beside 0 and 1 (6e-17 at 90 degrees) is far below a tenth
Sin10(degrees) ==
    CASE degrees = 0 -> 0 [] degrees = 90 -> 10 [] degrees = 180 -> 0 [] degrees = 270 -> -10

Cos10(degrees) ==
    CASE degrees = 0 -> 10 [] degrees = 90 -> 0 [] degrees = 180 -> -10 [] degrees = 270 -> 0

\* the rotated canvas keeps the width and height of its source
rotateCanvas_KeepsSize(w, h, degrees) == <<w, h>>

\* rotateCanvas(sourceCanvas, degrees)
rotateCanvas(w, h, degrees) ==
    LET s == Sin10(degrees)
        c == Cos10(degrees)
        newW == Abs(w * c) + Abs(h * s)
        newH == Abs(w * s) + Abs(h * c)
    IN  <<Round(newW), Round(newH)>>

\* toHighContrast(sourceCanvas)
toHighContrast(w, h) == <<w, h>>

\* cropCenterBand(sourceCanvas, mode, ratio), the ratio in tenths
cropCenterBand(w, h, mode, ratio10) ==
    LET r10 == MinOf(10, MaxOf(1, ratio10))
    IN  IF mode = "vertical"
        THEN <<Round(w * r10), h>>
        ELSE <<w, Round(h * r10)>>

CvIdle ==
    /\ cvW = 0
    /\ cvH = 0
    /\ cvTrail = <<>>

CvCalled(fn, arg, mode) ==
    Append(cvTrail, [fn |-> fn, arg |-> arg, mode |-> mode, w |-> cvW, h |-> cvH])

CvApply(fn, arg, mode, size) ==
    /\ Len(cvTrail) < MaxOps
    /\ cvTrail' = CvCalled(fn, arg, mode)
    /\ cvW' = size[1]
    /\ cvH' = size[2]
    /\ UNCHANGED <<chkVars, exVars, scVars, zxVars, vdVars>>

CvDrawScaled(maxDim, tieUp) ==
    CvApply("drawScaled", maxDim, IF tieUp THEN "up" ELSE "down",
            drawScaled(cvW, cvH, maxDim, tieUp))

CvRotate(degrees) == CvApply("rotateCanvas", degrees, "", rotateCanvas(cvW, cvH, degrees))

CvHighContrast == CvApply("toHighContrast", 0, "", toHighContrast(cvW, cvH))

CvCropBand(mode, ratio10) ==
    CvApply("cropCenterBand", ratio10, mode, cropCenterBand(cvW, cvH, mode, ratio10))

NextCanvas ==
    \/ \E maxDim \in 1..MaxSide, tieUp \in BOOLEAN : CvDrawScaled(maxDim, tieUp)
    \/ \E degrees \in {0, 90, 180, 270} : CvRotate(degrees)
    \/ CvHighContrast
    \/ \E mode \in {"horizontal", "vertical"}, ratio10 \in {5, 6} : CvCropBand(mode, ratio10)

(***************************************************************************)
(* Frontend: scanBarcodeFromVideo                                          *)
(***************************************************************************)
\* decoder callbacks one scan may receive
MaxCallbacks == 3

PendingPromise == [kind |-> "pending", value |-> Null]

\* resolve(value) and reject(reason): a promise settles once, later calls
\* change nothing
Settle(promise, kind, value) ==
    IF promise.kind = "pending" THEN [kind |-> kind, value |-> value] ELSE promise

\* clearTimeout(timeout): an armed timer is cancelled, any other is left
ClearTimeout(timer) == IF timer = "armed" THEN "cleared" ELSE timer

TimeoutError == <<"Barcode scan timeout">>

\* the (result, error) pairs the decoder calls back with: no code in the
\* frame, a decoded code, a frame that failed for another reason
Callbacks ==
    {[result |-> Null, error |-> NotFound]}
    \cup {[result |-> text, error |-> Null] : text \in {SeedEan13, SeedEan8}}
    \cup {[result |-> Null, error |-> <<name>>] : name \in {"ChecksumException", "NotAllowedError"}}

VdIdle ==
    /\ vdPc = "idle"
    /\ vdPromise = PendingPromise
    /\ vdTimer = "none"
    /\ vdResets = 0
    /\ vdTrail = <<>>

\* the executor of the promise: the reader is made, the timer set, the
\* callback registered
VdStart ==
    /\ vdPc = "idle"
    /\ vdPc' = "scanning"
    /\ vdTimer' = "armed"
    /\ UNCHANGED <<vdPromise, vdResets, vdTrail, chkVars, exVars, scVars, cvVars, zxVars>>

CallbacksRun == Len(SelectSeq(vdTrail, LAMBDA e : e.kind = "callback"))

\* the callback settles the promise and leaves the timer running
VdCallback_NoClear(cb) ==
    /\ vdPc = "scanning"
    /\ CallbacksRun < MaxCallbacks
    /\ vdTrail' = Append(vdTrail, [kind |-> "callback", cb |-> cb])
    /\ LET settles  == cb.result # Null \/ (cb.error # Null /\ cb.error # NotFound)
           resolved == IF cb.result # Null
                       THEN Settle(vdPromise, "resolved", cb.result)
                       ELSE vdPromise
       IN  /\ vdTimer' = vdTimer
           /\ vdResets' = IF settles THEN vdResets + 1 ELSE vdResets
           /\ vdPromise' = IF cb.error # Null /\ cb.error # NotFound
                           THEN Settle(resolved, "rejected", cb.error)
                           ELSE resolved
    /\ UNCHANGED <<vdPc, chkVars, exVars, scVars, cvVars, zxVars>>

\* the callback given to reader.decodeFromVideoElement, run once
VdCallback(cb) ==
    /\ vdPc = "scanning"
    /\ CallbacksRun < MaxCallbacks
    /\ vdTrail' = Append(vdTrail, [kind |-> "callback", cb |-> cb])
    /\ LET hasResult == cb.result # Null
           hasError  == cb.error # Null /\ cb.error # NotFound
           resolved  == IF hasResult
                        THEN Settle(vdPromise, "resolved", cb.result)
                        ELSE vdPromise
       IN  /\ vdTimer' = IF hasResult \/ hasError THEN ClearTimeout(vdTimer) ELSE vdTimer
           /\ vdResets' = vdResets + (IF hasResult THEN 1 ELSE 0)
                                   + (IF hasError THEN 1 ELSE 0)
           /\ vdPromise' = IF hasError
                           THEN Settle(resolved, "rejected", cb.error)
                           ELSE resolved
    /\ UNCHANGED <<vdPc, chkVars, exVars, scVars, cvVars, zxVars>>

\* the function given to setTimeout, run by the timer after 15 seconds
VdTimeout ==
    /\ vdPc = "scanning"
    /\ vdTimer = "armed"
    /\ vdTimer' = "fired"
    /\ vdResets' = vdResets + 1
    /\ vdPromise' = Settle(vdPromise, "rejected", TimeoutError)
    /\ vdTrail' = Append(vdTrail, [kind |-> "timeout", cb |-> [result |-> Null, error |-> Null]])
    /\ UNCHANGED <<vdPc, chkVars, exVars, scVars, cvVars, zxVars>>

NextVideo ==
    \/ VdStart
    \/ \E cb \in Callbacks : VdCallback(cb)
    \/ VdTimeout

(***************************************************************************)
(* Backend: decodeBarcodeWithZXing called on a buffer                      *)
(***************************************************************************)
NoView == [loads |-> FALSE, rot |-> [k \in 1..4 |-> NotFound]]

ZxIdle == zxCall = [fn |-> "none", view |-> NoView, out |-> Null]

ZxDecode(view) ==
    /\ zxCall.fn = "none"
    /\ zxCall' = [fn |-> "decodeBarcodeWithZXing", view |-> view,
                  out |-> decodeBarcodeWithZXing(view)]
    /\ UNCHANGED <<chkVars, exVars, scVars, cvVars, vdVars>>

NextDecoder == \E view \in ZXingViews : ZxDecode(view)

InitOrchestrator ==
    /\ input = Null
    /\ seedAt = 0
    /\ seedLen = 0
    /\ call = NoCall
    /\ ExIdle
    /\ ScIdle
    /\ CvIdle
    /\ ZxIdle
    /\ VdIdle

NextOrchestrator == NextExtract \/ NextScan

SpecOrchestrator == InitOrchestrator /\ [][NextOrchestrator]_vars

(***************************************************************************)
(* Inputs of the validator                                                 *)
(***************************************************************************)
MaxAdded == 2

InitChecksum ==
    /\ input \in Seeds \cup {Null}
    /\ seedAt = 0
    /\ seedLen = IF input = Null THEN 0 ELSE Len(input)
    /\ call = NoCall
    /\ ExIdle
    /\ ScIdle
    /\ CvIdle
    /\ ZxIdle
    /\ VdIdle

\* the canvas helpers start from an image of any width and height
InitCanvas ==
    /\ input = Null
    /\ seedAt = 0
    /\ seedLen = 0
    /\ call = NoCall
    /\ ExIdle
    /\ ScIdle
    /\ cvW \in 1..MaxSide
    /\ cvH \in 1..MaxSide
    /\ cvTrail = <<>>
    /\ ZxIdle
    /\ VdIdle

SpecCanvas == InitCanvas /\ [][NextCanvas]_vars

SpecDecoder == InitOrchestrator /\ [][NextDecoder]_vars

SpecVideo == InitOrchestrator /\ [][NextVideo]_vars

\* one more character in front of the string
Prepend(c) ==
    /\ input # Null
    /\ Len(input) - seedLen < MaxAdded
    /\ input' = <<c>> \o input
    /\ seedAt' = seedAt + 1
    /\ call' = NoCall
    /\ UNCHANGED <<seedLen, exVars, scVars, cvVars, zxVars, vdVars>>

\* one more character at the end of the string
Append_(c) ==
    /\ input # Null
    /\ Len(input) - seedLen < MaxAdded
    /\ input' = input \o <<c>>
    /\ call' = NoCall
    /\ UNCHANGED <<seedAt, seedLen, exVars, scVars, cvVars, zxVars, vdVars>>

CallIsValidEAN13 ==
    /\ call' = [fn |-> "isValidEAN13", arg |-> input, out |-> isValidEAN13(input)]
    /\ UNCHANGED <<input, seedAt, seedLen, exVars, scVars, cvVars, zxVars, vdVars>>

CallIsValidUPCA ==
    /\ call' = [fn |-> "isValidUPCA", arg |-> input, out |-> isValidUPCA(input)]
    /\ UNCHANGED <<input, seedAt, seedLen, exVars, scVars, cvVars, zxVars, vdVars>>

CallIsValidEAN8 ==
    /\ call' = [fn |-> "isValidEAN8", arg |-> input, out |-> isValidEAN8(input)]
    /\ UNCHANGED <<input, seedAt, seedLen, exVars, scVars, cvVars, zxVars, vdVars>>

CallFindValidBarcodeInString ==
    /\ call' = [fn |-> "findValidBarcodeInString", arg |-> input,
                out |-> findValidBarcodeInString(input)]
    /\ UNCHANGED <<input, seedAt, seedLen, exVars, scVars, cvVars, zxVars, vdVars>>

CallNormalizeAndValidateBarcode ==
    /\ call' = [fn |-> "normalizeAndValidateBarcode", arg |-> input,
                out |-> normalizeAndValidateBarcode(input)]
    /\ UNCHANGED <<input, seedAt, seedLen, exVars, scVars, cvVars, zxVars, vdVars>>

NextChecksum ==
    \/ \E c \in Alphabet : Prepend(c)
    \/ \E c \in Alphabet : Append_(c)
    \/ CallIsValidEAN13
    \/ CallIsValidUPCA
    \/ CallIsValidEAN8
    \/ CallFindValidBarcodeInString
    \/ CallNormalizeAndValidateBarcode

SpecChecksum == InitChecksum /\ [][NextChecksum]_vars

(***************************************************************************)
(* Properties of the checksum validator                                    *)
(***************************************************************************)
\* the i-th digit of s, counted from 0
DigitAt(s, i) == Number(s[i + 1])

AllDigits(s) == \A i \in 1..Len(s) : s[i] \in DigitChars

\* sum over i in 0..11 of d_i * (1 if i is even else 3)
WeightedSum13(s) ==
    DigitAt(s, 0) + 3 * DigitAt(s, 1) + DigitAt(s, 2) + 3 * DigitAt(s, 3)
    + DigitAt(s, 4) + 3 * DigitAt(s, 5) + DigitAt(s, 6) + 3 * DigitAt(s, 7)
    + DigitAt(s, 8) + 3 * DigitAt(s, 9) + DigitAt(s, 10) + 3 * DigitAt(s, 11)

\* s with its last character replaced by c
WithLast(s, c) == SubSeq(s, 1, Len(s) - 1) \o <<c>>

\* C1: isValidEAN13(s) is true exactly when s is 13 ASCII digits whose 13th
\* digit is (10 - weighted sum of the first twelve) mod 10; for a 12-digit
\* prefix exactly one 13th digit is accepted, and an accepted code with its
\* check digit replaced by another digit is rejected.
C1_EAN13Contract ==
    call.fn = "isValidEAN13" =>
        LET s == call.arg
            shape == s # Null /\ Len(s) = 13 /\ AllDigits(s)
        IN  /\ call.out = (shape /\ DigitAt(s, 12) = (10 - WeightedSum13(s)) % 10)
            /\ shape =>
                 Cardinality({c \in DigitChars : isValidEAN13(WithLast(s, c))}) = 1
            /\ call.out =>
                 \A c \in DigitChars \ {s[13]} : ~isValidEAN13(WithLast(s, c))

\* an accepted EAN-13 code that is not one of the seeds
C1_Witness ==
    /\ call.fn = "isValidEAN13"
    /\ call.out = TRUE
    /\ seedAt > 0

Readme456 == SeedReadme12 \o <<"6">>
Readme457 == SeedReadme12 \o <<"7">>

\* C2 as stated: "8901030123456" passes isValidEAN13 and "8901030123457" fails
C2_Original ==
    call.fn = "isValidEAN13" =>
        /\ call.arg = Readme456 => call.out = TRUE
        /\ call.arg = Readme457 => call.out = FALSE

\* C2 amended: "8901030123456" and "8901030123457" both fail isValidEAN13;
\* the check digit of the prefix 890103012345 is 0, so "8901030123450" passes.
C2_ReadmeCodeRejected ==
    call.fn = "isValidEAN13" =>
        /\ call.arg = Readme456 => call.out = FALSE
        /\ call.arg = Readme457 => call.out = FALSE
        /\ call.arg = SeedEan13 => call.out = TRUE

C2_Witness ==
    /\ call.fn = "isValidEAN13"
    /\ call.arg = Readme456
    /\ call.out = FALSE

\* C3: isValidUPCA(s) is true exactly when s is 12 ASCII digits whose last
\* digit is (10 - ((3 * (1st+3rd+...+11th) + (2nd+4th+...+10th)) mod 10)) mod 10.
C3_UPCAContract ==
    call.fn = "isValidUPCA" =>
        LET s == call.arg
            shape == s # Null /\ Len(s) = 12 /\ AllDigits(s)
            odd  == DigitAt(s, 0) + DigitAt(s, 2) + DigitAt(s, 4) + DigitAt(s, 6)
                    + DigitAt(s, 8) + DigitAt(s, 10)
            even == DigitAt(s, 1) + DigitAt(s, 3) + DigitAt(s, 5) + DigitAt(s, 7)
                    + DigitAt(s, 9)
        IN  call.out = (shape /\ DigitAt(s, 11) = (10 - ((3 * odd + even) % 10)) % 10)

C3_Witness ==
    /\ call.fn = "isValidUPCA"
    /\ call.out = TRUE
    /\ call.arg # SeedUpca

\* C4: isValidEAN8(s) is true exactly when s is 8 ASCII digits and
\* d_7 = (10 - ((3*(d_0+d_2+d_4+d_6) + (d_1+d_3+d_5)) mod 10)) mod 10.
C4_EAN8Contract ==
    call.fn = "isValidEAN8" =>
        LET s == call.arg
            shape == s # Null /\ Len(s) = 8 /\ AllDigits(s)
            three == DigitAt(s, 0) + DigitAt(s, 2) + DigitAt(s, 4) + DigitAt(s, 6)
            one   == DigitAt(s, 1) + DigitAt(s, 3) + DigitAt(s, 5)
        IN  call.out = (shape /\ DigitAt(s, 7) = (10 - ((3 * three + one) % 10)) % 10)

C4_Witness ==
    /\ call.fn = "isValidEAN8"
    /\ call.out = TRUE
    /\ call.arg # SeedEan8

\* the start indices (from 0) of the windows of length len that pass
ValidStarts(s, len, kind) ==
    {i \in 0..(Len(s) - len) : Validator(kind, Slice(s, i, i + len))}

Least(S) == CHOOSE i \in S : \A j \in S : i <= j

\* C5: on a digit string, the result is the leftmost valid EAN-13 window if
\* there is one, otherwise the leftmost valid UPC-A window, otherwise the
\* leftmost valid EAN-8 window; a shorter code is never returned while a
\* longer valid window exists anywhere in the string.
C5_WindowOrder ==
    (/\ call.fn = "findValidBarcodeInString"
     /\ call.arg # Null
     /\ AllDigits(call.arg)) =>
        LET s   == call.arg
            w13 == ValidStarts(s, 13, "ean13")
            w12 == ValidStarts(s, 12, "upca")
            w8  == ValidStarts(s, 8, "ean8")
        IN  /\ w13 # {} => call.out = Slice(s, Least(w13), Least(w13) + 13)
            /\ (w13 = {} /\ w12 # {}) =>
                   call.out = Slice(s, Least(w12), Least(w12) + 12)
            /\ (w13 = {} /\ w12 = {} /\ w8 # {}) =>
                   call.out = Slice(s, Least(w8), Least(w8) + 8)
            /\ (call.out # Null /\ Len(call.out) = 12) => w13 = {}
            /\ (call.out # Null /\ Len(call.out) = 8) => (w13 = {} /\ w12 = {})

\* a string holding a valid EAN-8 window ahead of a valid EAN-13 window
C5_Witness ==
    /\ call.fn = "findValidBarcodeInString"
    /\ call.arg # Null
    /\ AllDigits(call.arg)
    /\ ValidStarts(call.arg, 13, "ean13") # {}
    /\ ValidStarts(call.arg, 8, "ean8") # {}
    /\ Least(ValidStarts(call.arg, 8, "ean8"))
         < Least(ValidStarts(call.arg, 13, "ean13"))
    /\ Len(call.out) = 13

\* the input is a valid EAN-13 code with digits before and after it
EmbeddedEAN13 ==
    /\ call.fn = "findValidBarcodeInString"
    /\ seedLen = 13
    /\ AllDigits(call.arg)
    /\ seedAt >= 1
    /\ Len(call.arg) > seedAt + 13
    /\ isValidEAN13(Slice(call.arg, seedAt, seedAt + 13))

\* C6 as stated: the result is exactly the embedded EAN-13 code
C6_Original ==
    EmbeddedEAN13 => call.out = Slice(call.arg, seedAt, seedAt + 13)

\* C6 amended: the result is the leftmost length-13 window that passes
\* isValidEAN13; it starts at or before the embedded code, and it is the
\* embedded code exactly when no window to its left passes.
C6_LeftmostEmbedded ==
    EmbeddedEAN13 =>
        LET s    == call.arg
            w13  == ValidStarts(s, 13, "ean13")
            left == {i \in w13 : i < seedAt}
        IN  /\ call.out # Null
            /\ \E i \in w13 : i <= seedAt /\ call.out = Slice(s, i, i + 13)
            /\ left = {} => call.out = Slice(s, seedAt, seedAt + 13)
            /\ left # {} => call.out = Slice(s, Least(left), Least(left) + 13)

\* an embedded code that is returned although a later window passes as well
C6_Witness ==
    /\ EmbeddedEAN13
    /\ call.out = Slice(call.arg, seedAt, seedAt + 13)
    /\ \E i \in ValidStarts(call.arg, 13, "ean13") : i > seedAt

\* the digits of s, in order
DigitsOf(s) == SelectSeq(s, LAMBDA c : c \in DigitChars)

HasValidWindow(s) ==
    \/ ValidStarts(s, 13, "ean13") # {}
    \/ ValidStarts(s, 12, "upca") # {}
    \/ ValidStarts(s, 8, "ean8") # {}

\* C7: findValidBarcodeInString and normalizeAndValidateBarcode never
\* throw; they return null for null, for the empty string, for fewer than 8
\* digits and for a string with no valid window; normalizeAndValidateBarcode
\* searches the digits of its argument, and every non-null result is digits only.
C7_NullNeverThrow ==
    call.fn \in {"findValidBarcodeInString", "normalizeAndValidateBarcode"} =>
        LET searched == IF call.arg = Null THEN <<>>
                        ELSE IF call.fn = "normalizeAndValidateBarcode"
                             THEN DigitsOf(call.arg)
                             ELSE call.arg
        IN  /\ call.out # Throw
            /\ call.arg = Null => call.out = Null
            /\ Len(searched) < 8 => call.out = Null
            /\ (call.out = Null) = ~HasValidWindow(searched)
            /\ call.out # Null => AllDigits(call.out)

\* a string with separators whose digits form a valid code
C7_Witness ==
    /\ call.fn = "normalizeAndValidateBarcode"
    /\ call.arg # Null
    /\ ~AllDigits(call.arg)
    /\ call.out # Null

(***************************************************************************)
(* Properties of the orchestrators                                         *)
(***************************************************************************)
PassesChecksum(text) ==
    isValidEAN13(text) \/ isValidUPCA(text) \/ isValidEAN8(text)

\* C8: every text an orchestrator returns as its result (the value of
\* scanBarcodeFromImage or scanBarcodeFromCanvas, the text of an entry of
\* barcodes in the /extract response) has passed checksum validation.
C8_Original ==
    /\ scResult.kind = "return" => PassesChecksum(scResult.text)
    /\ \A i \in 1..Len(exResp.barcodes) : PassesChecksum(exResp.barcodes[i].text)

\* C9: when the ROI detector fails or returns no candidate, the handler goes
\* on with an empty candidate list to the full-image fallback, makes its
\* decode attempts on the full image and answers 200; the scanner whose
\* detector threw goes on to its decode engines.
C9_DetectorFailureFallsBack ==
    /\ (/\ exUpload = "image"
        /\ exPc \notin {"idle", "detect", "awaitDetect"}
        /\ (exHfFailed \/ exDetections = <<>>)) =>
            /\ exDetections = <<>>
            /\ exPc \in {"fallback", "fallbackDecode", "respond", "done"}
            /\ exPc \in {"respond", "done"} => exBase # "none"
            /\ (exPc \in {"respond", "done"} /\ exBase = "ok") =>
                   /\ Len(exAttempts) >= 1
                   /\ \A i \in 1..Len(exAttempts) : exAttempts[i].target = 0
            /\ exPc = "done" => exResp.status = 200
    /\ (scDetectFailed /\ scPc = "done") => Len(scCalls) >= 1

\* the detector failed and the full image was decoded all the same
C9_Witness ==
    /\ exPc = "done"
    /\ exHfFailed
    /\ Len(exResp.barcodes) = 1
    /\ exResp.barcodes[1].text = SeedEan13
    /\ exAttempts[Len(exAttempts)] = [target |-> 0, scale |-> 3]

\* the scanner ran its last OCR pass and no engine produced the result
ScanExhausted ==
    /\ scPc = "done"
    /\ scCalls # <<>>
    /\ scCalls[Len(scCalls)].engine = "OCR"
    /\ scResult.engine # "OCR"

CallsOf(engine) == {i \in 1..Len(scCalls) : scCalls[i].engine = engine}

\* C11: the ZXing attempts are executed in the order of the attempt list, one
\* after the other from the first; the attempt whose text is returned is the
\* first that decoded (every attempt before it failed), and no attempt is
\* executed after it.
C11_FirstSuccessWins ==
    /\ \A i \in CallsOf("ZXing") :
          /\ scCalls[i].idx = Cardinality({j \in CallsOf("ZXing") : j <= i})
          /\ scCalls[i].idx <= Len(scAttempts)
          /\ scCalls[i].ok =>
                /\ i = Len(scCalls)
                /\ scPc = "done"
                /\ scResult.kind = "return"
                /\ scResult.engine = "ZXing"
    /\ scResult.engine = "ZXing" =>
          /\ scCalls # <<>>
          /\ scCalls[Len(scCalls)].engine = "ZXing"
          /\ scCalls[Len(scCalls)].ok

\* the third attempt of the list decoded after two failures, in a list
\* of more than three attempts
C11_Witness ==
    /\ scPc = "done"
    /\ scResult.engine = "ZXing"
    /\ scCalls[Len(scCalls)].idx = 3
    /\ Len(scAttempts) > 3

EngineRank(engine) ==
    CASE engine = "Quagga" -> 1
      [] engine = "ZXing" -> 2
      [] engine = "BarcodeDetector" -> 3
      [] engine = "OCR" -> 4

AttemptsOn(target) == {i \in 1..Len(exAttempts) : exAttempts[i].target = target}

\* the handler is past the scale loop of this target
PastTarget(target) ==
    \/ exPc \in {"respond", "done"}
    \/ target > 0 /\ exIdx > target

\* C14 as stated: no adapter lets a failure out, so a failing call never
\* keeps the calls after it from running: Quagga is tried on every ROI and on
\* the file before ZXing starts, and a crop or full image that gave no text
\* was decoded at all three scales.
C14_Original ==
    /\ (scFn = "image" /\ scPc \in {"build", "zxing", "bd", "ocrRoi", "ocrFull"}) =>
          /\ Cardinality(CallsOf("Quagga")) = scRois + 1
          /\ \E i \in CallsOf("Quagga") : scCalls[i].idx = 0
    /\ \A target \in 0..Len(exDetections) :
          (/\ AttemptsOn(target) # {}
           /\ PastTarget(target)
           /\ \A j \in 1..Len(exDecodedFrom) : exDecodedFrom[j] # target)
          => Cardinality(AttemptsOn(target)) = 3

\* the box of one element of the response, from its corner coordinates
CornerBox(d) ==
    <<Round(d.a), Round(d.b),
      Round(IF d.c > d.a THEN d.c - d.a ELSE 0),
      Round(IF d.d > d.b THEN d.d - d.b ELSE 0)>>

\* the candidates of a response: the elements with an xmin/ymin/xmax/ymax
\* object or nested boxes, in the order of the response, without those of
\* rounded width or height 2 or less
ExpectedBoxes(data) ==
    LET all  == [i \in 1..Len(data) |->
                   [box |-> CornerBox(data[i]), score |-> data[i].score,
                    shape |-> data[i].shape]]
        kept == SelectSeq(all, LAMBDA b :
                   b.shape \in {"obj", "nested"} /\ b.box[3] > 2 /\ b.box[4] > 2)
    IN  [i \in 1..Len(kept) |-> [box |-> kept[i].box, score |-> kept[i].score]]

\* the handler has just received the detector's answer
JustDetected ==
    /\ exPc \in {"roi", "fallback"}
    /\ ~exHfFailed
    /\ exIdx <= 1
    /\ exBase = "none"

\* the array responses that give the detections the handler holds
ResponsesGiving(dets) ==
    {o \in DetectOutcomes : o.kind = "array" /\ detectBarcodesHF(o).boxes = dets}

\* C15 as stated: every returned box has integer coordinates with x and y
\* not negative and width and height above 2, and the candidates are those
\* of the response in its order, less the discarded ones.
C15_Original ==
    /\ \A i \in 1..Len(exDetections) :
          /\ \A k \in 1..4 : exDetections[i].box[k] \in Int
          /\ exDetections[i].box[1] >= 0
          /\ exDetections[i].box[2] >= 0
          /\ exDetections[i].box[3] > 2
          /\ exDetections[i].box[4] > 2
    /\ JustDetected =>
          \A o \in ResponsesGiving(exDetections) : exDetections = ExpectedBoxes(o.data)

\* C15: every box detectBarcodesHF returns is four integers [x, y, w, h] with
\* w > 2 and h > 2, where x and y are the rounded xmin and ymin of the
\* service, negative when the service's are, and w and h the rounded extents,
\* never negative; the candidates are those of the response with an
\* xmin/ymin/xmax/ymax object or nested boxes, in the order of the response,
\* less those of rounded width or height 2 or less.
C15_NormalisedBoxes ==
    /\ \A i \in 1..Len(exDetections) :
          /\ \A k \in 1..4 : exDetections[i].box[k] \in Int
          /\ exDetections[i].box[3] > 2
          /\ exDetections[i].box[4] > 2
    /\ JustDetected =>
          \A o \in ResponsesGiving(exDetections) : exDetections = ExpectedBoxes(o.data)

\* two candidates kept in the order of the response, the lower score first,
\* the first from nested boxes with a negative xmin
C15_Witness ==
    /\ JustDetected
    /\ Len(exDetections) = 2
    /\ exDetections[1].box[1] < 0
    /\ exDetections[1].score < exDetections[2].score

\* C16 as stated: the call of the detection service is under a timeout, so a
\* request waiting on a service that does not answer always has a next step
\* (the timeout) and is never stuck at the await.
C16_Original == exPc = "awaitDetect" => ENABLED NextExtract

\* a decodeBarcodeWithZXing call that finds nothing at any rotation
NothingFound == [loads |-> TRUE, rot |-> [k \in 1..4 |-> NotFound]]

\* the most attempts scanBarcodeFromImage builds for a number of ROIs: twelve
\* for each ROI, forty-eight for the four scales, six for the OCR canvas
MostAttempts(rois) == 12 * rois + 54

\* an upper bound of the steps the /extract request still takes
ExStepsLeft ==
    LET n == Len(exDetections)
    IN  CASE exPc = "done" -> 0
          [] exPc = "awaitDetect" -> 0
          [] exPc = "respond" -> 1
          [] exPc = "fallbackDecode" -> 5 - exScale
          [] exPc = "fallback" -> 5
          [] exPc = "roiDecode" -> 5 * (n - exIdx) + 5 - exScale
          [] exPc = "roi" -> 5 * (n - exIdx) + 5
          [] exPc = "detect" -> 5 * MaxDet + 6
          [] exPc = "idle" -> 5 * MaxDet + 7

\* an upper bound of the steps the scanner call still takes
ScStepsLeft ==
    CASE scPc = "done" -> 0
      [] scPc = "ocrFull" -> 1
      [] scPc = "ocrRoi" -> 2 + scRois - scIdx
      [] scPc = "bd" -> 3 + scRois
      [] scPc = "zxing" -> 4 + scRois + Len(scAttempts) - scIdx
      [] scPc = "build" -> 5 + scRois + MostAttempts(scRois)
      [] scPc = "quaggaFull" -> 6 + scRois + MostAttempts(scRois)
      [] scPc = "quaggaRoi" -> 7 + 2 * scRois - scIdx + MostAttempts(scRois)
      [] scPc = "detectRoi" -> 8 + 2 * MaxRois + MostAttempts(MaxRois)
      [] scPc = "load" -> 9 + 2 * MaxRois + MostAttempts(MaxRois)
      [] scPc = "idle" -> 10 + 2 * MaxRois + MostAttempts(MaxRois)

StepsLeft == ExStepsLeft + ScStepsLeft

\* wherever the decoding stage stands, the step of an engine finding nothing
\* can be taken
NotFoundStepEnabled ==
    /\ exPc = "roi" => ENABLED ExCrop(TRUE)
    /\ exPc = "roiDecode" => ENABLED ExDecodeCrop(NothingFound)
    /\ exPc = "fallback" => ENABLED ExFallbackBase(TRUE)
    /\ exPc = "fallbackDecode" => ENABLED ExDecodeFull(NothingFound)
    /\ exPc = "respond" => ENABLED ExRespond
    /\ scPc = "quaggaRoi" => ENABLED ScQuaggaRoi(Null)
    /\ scPc = "quaggaFull" => ENABLED ScQuaggaFull(Null)
    /\ scPc = "build" => ENABLED ScBuild(TRUE, TRUE)
    /\ scPc = "zxing" => ENABLED ScZXing(Null)
    /\ scPc = "bd" => ENABLED ScBarcodeDetector(Null)
    /\ scPc = "ocrRoi" => ENABLED ScOcrRoi(<<>>)
    /\ scPc = "ocrFull" => ENABLED ScOcrFull(<<>>)

\* the attempts made stay within what the candidates allow, and a run in
\* which nothing was decoded ends in the not-found outcome of its function
FiniteAttempts ==
    /\ Len(exAttempts) <= 3 * MaxOf(1, Len(exDetections))
    /\ Len(scAttempts) <= MostAttempts(scRois)
    /\ Cardinality(CallsOf("ZXing")) <= Len(scAttempts)
    /\ Cardinality(CallsOf("Quagga")) <= scRois + 1
    /\ Cardinality(CallsOf("OCR")) <= scRois + 1
    /\ (exPc = "done" /\ exUpload = "image") =>
          /\ exResp.status = 200
          /\ exDecodedFrom = <<>> => exResp.barcodes = <<>>
    /\ (scPc = "done" /\ CallsOf("OCR") # {} /\ ~scCalls[Len(scCalls)].ok) =>
          scResult = Thrown(NoBarcodeMsg(scFn), "exhausted")

C18_Original ==
    /\ Len(exAttempts) <= 3
    /\ Cardinality(CallsOf("ZXing")) <= MostAttempts(0)

\* C19 as stated: the handler takes the detections in the order of the
\* detector, whatever their scores; once it is past a detection, that
\* detection has had a decode attempt if its width and height are at least
\* 5, and none otherwise.
C19_Original ==
    /\ \A i \in 1..Len(exAttempts) : \A k \in 1..Len(exAttempts) :
          i < k => exAttempts[i].target <= exAttempts[k].target
    /\ \A target \in 1..Len(exDetections) :
          PastTarget(target) =>
             (AttemptsOn(target) # {}
                <=> (/\ exDetections[target].box[3] >= 5
                     /\ exDetections[target].box[4] >= 5))

\* C20: a 200 response of /extract has in boxes all the detections the
\* detector returned, those skipped for their size and those whose crop
\* failed included, in the same order; every entry of barcodes has a text
\* that is not empty and has no blank around it, and the box and the score of
\* the detection whose crop gave it (on the full-image path, where there is
\* no detection, the box [0, 0, 0, 0] and the score 0).
C20_ResponseShape ==
    (exPc = "done" /\ exResp.status = 200) =>
       /\ exResp.boxes = exDetections
       /\ exCropFailed \subseteq 1..Len(exResp.boxes)
       /\ Len(exResp.barcodes) = Len(exDecodedFrom)
       /\ \A j \in 1..Len(exResp.barcodes) :
             LET entry == exResp.barcodes[j]
                 from  == exDecodedFrom[j]
             IN  /\ entry.text # <<>>
                 /\ entry.text[1] # Space
                 /\ entry.text[Len(entry.text)] # Space
                 /\ from > 0 =>
                       /\ from <= Len(exResp.boxes)
                       /\ entry.box = exResp.boxes[from].box
                       /\ entry.score = exResp.boxes[from].score
                 /\ from = 0 =>
                       /\ exResp.boxes = <<>>
                       /\ entry.box = <<0, 0, 0, 0>>
                       /\ entry.score = 0

\* a response with two different boxes, the first of a detection whose crop
\* failed, and one barcode, read from the second with blanks around it
C20_Witness ==
    /\ exPc = "done"
    /\ exResp.status = 200
    /\ Len(exResp.boxes) = 2
    /\ exResp.boxes[1] # exResp.boxes[2]
    /\ exCropFailed = {1}
    /\ exDecodedFrom = <<2>>
    /\ exResp.barcodes[1].text = SeedUpca

\* C21 as stated: an upload that is missing, has no bytes, is of another type
\* or is too large is answered with an input error (400, 413, 415) before
\* the detector is called and before anything is decoded.
C21_Original ==
    exUpload \in {"missing", "empty", "badtype", "toolarge"} =>
       /\ exPc \in {"idle", "done"}
       /\ exAttempts = <<>>
       /\ exPc = "done" => exResp.status \in {400, 413, 415}

\* the last canvas helper call, when there is one
LastOp == cvTrail[Len(cvTrail)]

\* C22: whatever the width and height (at least 1) of the source and the
\* positive maxDim, the canvas drawScaled makes is at most maxDim wide and
\* high and at least 1 wide and high.
C22_ScaledWithinMax ==
    (cvTrail # <<>> /\ LastOp.fn = "drawScaled" /\ LastOp.w >= 1 /\ LastOp.h >= 1) =>
       /\ MaxOf(cvW, cvH) <= LastOp.arg
       /\ cvW >= 1
       /\ cvH >= 1

\* a source six times as high as wide was scaled down to a height of 2: the
\* width, a third of a pixel, was lifted to 1
C22_Witness ==
    /\ cvTrail # <<>>
    /\ LastOp.fn = "drawScaled"
    /\ LastOp.w = 1
    /\ LastOp.h = 6
    /\ LastOp.arg = 2
    /\ cvW = 1
    /\ cvH = 2

\* C23: rotateCanvas by 90 or 270 degrees swaps width and height, by 0 or
\* 180 degrees keeps them, and a rotation by 90 followed by one by 270 gives
\* back the width and height of the source.
C23_RotationSizes ==
    /\ (cvTrail # <<>> /\ LastOp.fn = "rotateCanvas") =>
          IF LastOp.arg \in {90, 270}
          THEN cvW = LastOp.h /\ cvH = LastOp.w
          ELSE cvW = LastOp.w /\ cvH = LastOp.h
    /\ (/\ Len(cvTrail) = 2
        /\ cvTrail[1].fn = "rotateCanvas" /\ cvTrail[1].arg = 90
        /\ cvTrail[2].fn = "rotateCanvas" /\ cvTrail[2].arg = 270) =>
          /\ cvW = cvTrail[1].w
          /\ cvH = cvTrail[1].h

\* a canvas wider than high was rotated by 90 and then by 270 degrees
C23_Witness ==
    /\ Len(cvTrail) = 2
    /\ cvTrail[1].fn = "rotateCanvas" /\ cvTrail[1].arg = 90
    /\ cvTrail[2].fn = "rotateCanvas" /\ cvTrail[2].arg = 270
    /\ cvTrail[1].w > cvTrail[1].h
    /\ cvTrail[2].w < cvTrail[2].h

\* the label the claim gives the i-th attempt of scanBarcodeFromImage: blocks
\* of six variants, two blocks (plain, high-contrast) for each ROI in
\* candidate order, then two for each of the scales 600, 1000, 1400, 2000,
\* then the block of the OCR-preprocessed image when there is one
ExpectedAttempt(i, rois) ==
    LET block   == (i - 1) \div 6
        variant == <<"@0", "@90", "@180", "@270", "@hband", "@vband">>[((i - 1) % 6) + 1]
        k       == block - 2 * rois
    IN  IF block < 2 * rois
        THEN [base |-> IF block % 2 = 0 THEN "roi" ELSE "roi-contrast",
              n |-> block \div 2, variant |-> variant]
        ELSE IF k < 8
        THEN [base |-> IF k % 2 = 0 THEN "base" ELSE "contrast",
              n |-> <<600, 1000, 1400, 2000>>[(k \div 2) + 1], variant |-> variant]
        ELSE [base |-> "ocr", n |-> 1600, variant |-> variant]

IsWindowOf(sub, s) ==
    \E i \in 0..(Len(s) - Len(sub)) : Slice(s, i, i + Len(sub)) = sub

\* C25: OCR is run on the ROIs in candidate order and then on the whole
\* image; a text returned through OCR has only digits, has 13, 12 or 8 of
\* them, passes the checksum of its length and is a window of the digits of
\* something the OCR engine read; an OCR call whose digits hold no valid
\* window does not end the scan with a result.
C25_OcrValidated ==
    /\ \A i \in CallsOf("OCR") :
          LET nth == Cardinality({j \in CallsOf("OCR") : j <= i})
          IN  scCalls[i].idx = IF nth <= scRois THEN nth ELSE 0
    /\ scResult.engine = "OCR" =>
          /\ scResult.kind = "return"
          /\ scCalls[Len(scCalls)].engine = "OCR"
          /\ AllDigits(scResult.text)
          /\ \/ Len(scResult.text) = 13 /\ isValidEAN13(scResult.text)
             \/ Len(scResult.text) = 12 /\ isValidUPCA(scResult.text)
             \/ Len(scResult.text) = 8 /\ isValidEAN8(scResult.text)
          /\ \E o \in OcrOutcomes \ {Throw} : IsWindowOf(scResult.text, DigitsOf(o))
    /\ \A i \in CallsOf("OCR") :
          ~scCalls[i].ok =>
             \/ scResult.engine # "OCR"
             \/ i < Len(scCalls)

\* OCR read nothing valid on the ROI and then, on the whole image, an EAN-13
\* among other characters
C25_Witness ==
    /\ scPc = "done"
    /\ scFn = "image"
    /\ scRois > 0
    /\ Cardinality(CallsOf("OCR")) = scRois + 1
    /\ scResult.engine = "OCR"
    /\ scResult.text = SeedEan13

\* the rotations (1: 0 degrees, ..., 4: 270 degrees) at which the reader
\* gives a result instead of throwing
Decoding(view) == {k \in 1..4 : view.rot[k] # NotFound}

\* ZXing's readers throw NotFoundException for a code without content: a
\* result always carries a text
ReaderGivesText(view) == \A k \in 1..4 : view.rot[k] # EmptyText

\* C26: on a buffer sharp can load, decodeBarcodeWithZXing returns the text
\* of the first of the rotations 0, 90, 180, 270 at which the reader decodes,
\* whatever the later rotations would give, and null only when the reader
\* has thrown at all four.
C26_FirstRotationWins ==
    (/\ zxCall.fn = "decodeBarcodeWithZXing"
     /\ zxCall.view.loads
     /\ ReaderGivesText(zxCall.view)) =>
       IF Decoding(zxCall.view) = {}
       THEN zxCall.out = Null
       ELSE /\ zxCall.out = zxCall.view.rot[Least(Decoding(zxCall.view))]
            /\ zxCall.out # Null

\* the reader threw at 0 and 90 degrees and decoded at 180; at 270 degrees
\* it would have read another text
C26_Witness ==
    /\ zxCall.fn = "decodeBarcodeWithZXing"
    /\ zxCall.view.loads
    /\ Decoding(zxCall.view) = {3, 4}
    /\ zxCall.view.rot[3] = SeedEan13
    /\ zxCall.view.rot[4] # SeedEan13
    /\ zxCall.view.rot[4] # EmptyText
    /\ zxCall.out = SeedEan13

\* the check digit rule of a code of the length of sub accepts sub
PassesOwnChecksum(sub) ==
    \/ Len(sub) = 13 /\ isValidEAN13(sub)
    \/ Len(sub) = 12 /\ isValidUPCA(sub)
    \/ Len(sub) = 8 /\ isValidEAN8(sub)

\* C27: a result of findValidBarcodeInString that is not null is a contiguous
\* window of the input, 13, 12 or 8 characters long, accepted by the check
\* digit rule of its length; and the 14-character step never produces the
\* result: whenever it finds a window, the EAN-13 search has found one before.
C27_WindowsOnly ==
    (/\ call.fn = "findValidBarcodeInString"
     /\ call.arg # Null) =>
       /\ call.out # Throw
       /\ call.out # Null =>
            /\ IsWindowOf(call.out, call.arg)
            /\ PassesOwnChecksum(call.out)
       /\ (Len(call.arg) >= 14 /\ win(call.arg, 14, "lead0") # Null) =>
            /\ win(call.arg, 13, "ean13") # Null
            /\ call.out = win(call.arg, 13, "ean13")

\* a 14-character window whose last 13 pass and whose first is not "0": the
\* result is the EAN-13 window
C27_Witness ==
    /\ call.fn = "findValidBarcodeInString"
    /\ call.arg # Null
    /\ Len(call.arg) >= 14
    /\ win(call.arg, 14, "lead0") # Null
    /\ win(call.arg, 14, "lead0")[1] # "0"
    /\ call.out = SeedEan13

\* what the [x, y, w, h] branch would make of an element with an array box
ArrayBranchBox(d) ==
    [box |-> <<Round(d.a), Round(d.b), Round(d.c), Round(d.d)>>, score |-> d.score]

\* the elements of a response whose box is not an array
WithoutArrays(data) == SelectSeq(data, LAMBDA d : d.shape # "arr")

\* C28: the [x, y, w, h] branch of detectBarcodesHF is never taken: an
\* element whose box is an array gives no candidate, so the candidates are
\* those of the response without such elements, none of them is the box the
\* branch would have made, and the element itself normalises to [0, 0, 0, 0],
\* which the filter removes.
C28_ArrayBranchDead ==
    JustDetected =>
       \A o \in ResponsesGiving(exDetections) :
          /\ Len(exDetections) <= Len(WithoutArrays(o.data))
          /\ exDetections = detectBarcodesHF([o EXCEPT !.data = WithoutArrays(o.data)]).boxes
          /\ \A i \in 1..Len(o.data) :
                o.data[i].shape = "arr" =>
                   /\ NormalizeBox(o.data[i]).box = <<0, 0, 0, 0>>
                   /\ ~KeepBox(NormalizeBox(o.data[i]))
                   /\ \A j \in 1..Len(exDetections) :
                         exDetections[j] # ArrayBranchBox(o.data[i])

\* a response of an array box of width and height 50 followed by a corner
\* box: one candidate, the second element
C28_Witness ==
    /\ JustDetected
    /\ Len(exDetections) = 1
    /\ \E o \in ResponsesGiving(exDetections) :
          /\ Len(o.data) = 2
          /\ o.data[1].shape = "arr"
          /\ KeepBox(ArrayBranchBox(o.data[1]))
          /\ o.data[2].shape = "obj"

\* the handler is in the full-image branch or has been through it
FullImageBranch ==
    \/ exPc \in {"fallback", "fallbackDecode"}
    \/ exBase # "none"
    \/ AttemptsOn(0) # {}

\* C29: once the detector has answered or failed, /extract is in its
\* full-image branch exactly when the list of detections is empty (the
\* detector returned none or failed); with one detection or more every decode
\* is made on a crop, never on the full image, whatever becomes of the
\* detections, and if none of them gives a text the response is a 200 with
\* an empty barcodes list.
C29_FallbackIffNoDetections ==
    (/\ exUpload \in {"image", "empty"}
     /\ exPc \notin {"idle", "detect", "awaitDetect"}) =>
       /\ FullImageBranch <=> exDetections = <<>>
       /\ exHfFailed => exDetections = <<>>
       /\ exDetections # <<>> =>
             /\ \A i \in 1..Len(exAttempts) : exAttempts[i].target \in 1..Len(exDetections)
             /\ \A j \in 1..Len(exDecodedFrom) : exDecodedFrom[j] >= 1
             /\ (exPc = "done" /\ exDecodedFrom = <<>>) =>
                   /\ exResp.status = 200
                   /\ exResp.boxes = exDetections
                   /\ exResp.barcodes = <<>>

\* two detections, the first skipped for its size, the second cropped and
\* decoded three times without a text: a 200 with no barcode, the full image
\* never decoded
C29_Witness ==
    /\ exPc = "done"
    /\ exUpload = "image"
    /\ Len(exDetections) = 2
    /\ exDetections[1].box[3] < 5
    /\ Cardinality(AttemptsOn(2)) = 3
    /\ AttemptsOn(0) = {}
    /\ exBase = "none"
    /\ exResp.status = 200
    /\ exResp.barcodes = <<>>

\* the entries of the trail that call resolve or reject: a callback with a
\* result or with an error other than NotFoundException, and the timer
Settling ==
    {i \in 1..Len(vdTrail) :
        \/ vdTrail[i].kind = "timeout"
        \/ vdTrail[i].cb.result # Null
        \/ vdTrail[i].cb.error # Null /\ vdTrail[i].cb.error # NotFound}

TimerRuns == {i \in 1..Len(vdTrail) : vdTrail[i].kind = "timeout"}

\* C30: whatever the order of the decoder's callbacks and the timer, the
\* promise of scanBarcodeFromVideo is pending as long as only
\* NotFoundException callbacks have run, and the timer is then still armed;
\* the first callback with a result resolves it with the text, the first
\* with another error rejects it with that error, and either stops the timer
\* and resets the reader, so that the timer never runs after it; the timer
\* running first rejects with 'Barcode scan timeout' and resets the reader;
\* nothing that runs later changes the outcome.
C30_SettlesOnce ==
    vdPc = "scanning" =>
       /\ Settling = {} =>
             /\ vdPromise = PendingPromise
             /\ vdTimer = "armed"
             /\ vdResets = 0
       /\ Settling # {} =>
             LET first == vdTrail[Least(Settling)]
             IN  /\ vdPromise.kind # "pending"
                 /\ vdTimer # "armed"
                 /\ vdResets >= 1
                 /\ first.kind = "timeout" =>
                       /\ vdPromise = [kind |-> "rejected", value |-> TimeoutError]
                       /\ vdTimer = "fired"
                 /\ (first.kind = "callback" /\ first.cb.result # Null) =>
                       /\ vdPromise = [kind |-> "resolved", value |-> first.cb.result]
                       /\ vdTimer = "cleared"
                 /\ (first.kind = "callback" /\ first.cb.result = Null) =>
                       /\ vdPromise = [kind |-> "rejected", value |-> first.cb.error]
                       /\ vdTimer = "cleared"
       /\ TimerRuns # {} => TimerRuns = {Least(Settling)}
       /\ vdTimer = "fired" <=> TimerRuns # {}

\* a NotFoundException callback, then a decoded code, then a callback with
\* an error: resolved with the code, the timer stopped
C30_Witness ==
    /\ vdPc = "scanning"
    /\ Len(vdTrail) = 3
    /\ vdTrail[1].cb.error = NotFound
    /\ vdTrail[2].cb.result = SeedEan13
    /\ vdTrail[3].cb.error = <<"ChecksumException">>
    /\ vdPromise = [kind |-> "resolved", value |-> SeedEan13]
    /\ vdTimer = "cleared"
    /\ vdResets = 2

====
